---- MODULE Spec2Model ----
(***************************************************************************)
(* The IPv6 probe engine of trippy (src/tracing/net/ipv6.rs): the probe    *)
(* dispatcher (dispatch_icmp_probe, dispatch_udp_probe) and the response   *)
(* extractor (recv_icmp_probe), with the raw sockets they act on.          *)
(*                                                                         *)
(* Byte slices are records [bytes, fill, n]: the explicit bytes followed   *)
(* by n copies of the byte `fill` (a zeroed stack buffer that received a   *)
(* 12 byte datagram is the 12 bytes followed by 1012 zeros).  n = -1 is    *)
(* Option::None.                                                           *)
(*                                                                         *)
(* usize values are carried as the signed reading of their 64 bit pattern: *)
(* a negative number k stands for 2^64 + k, which is what a wrapping       *)
(* subtraction leaves in a build without overflow checks.                  *)
(***************************************************************************)
EXTENDS Integers, Sequences, FiniteSets, TLC

VARIABLES icmp_send_socket, udp_send_socket, recv_socket, recv_queue, last, err_seen

vars == <<icmp_send_socket, udp_send_socket, recv_socket, recv_queue, last, err_seen>>

----------------------------------------------------------------------------
(* Sizes *)

MAX_PACKET_SIZE == 1024

Ipv6MinimumPacketSize == 40

IcmpMinimumPacketSize == 8

UdpMinimumPacketSize == 8

MAX_UDP_PACKET_BUF == MAX_PACKET_SIZE - Ipv6MinimumPacketSize

MAX_UDP_PAYLOAD_BUF == MAX_UDP_PACKET_BUF - UdpMinimumPacketSize

MAX_ICMP_PACKET_BUF == MAX_PACKET_SIZE - Ipv6MinimumPacketSize

MAX_ICMP_PAYLOAD_BUF == MAX_ICMP_PACKET_BUF - IcmpMinimumPacketSize

(* ICMPv6 type numbers and the IPv6 next-header numbers *)
TypeDestinationUnreachable == 1

TypeTimeExceeded == 3

TypeEchoRequest == 128

TypeEchoReply == 129

NextHeaderUdp == 17

NextHeaderIcmpv6 == 58

----------------------------------------------------------------------------
(* Byte slices *)

Slice(b, f, k) == [bytes |-> b, fill |-> f, n |-> k]

NoneSlice == Slice(<<>>, 0, -1)

IsNone(s) == s.n < 0

SliceLen(s) == Len(s.bytes) + s.n

\* s[i], i counted from 0
ByteAt(s, i) == IF i < Len(s.bytes) THEN s.bytes[i + 1] ELSE s.fill

\* the bounds check of s[..k] and s[k..] on a usize k
IndexInBounds(s, k) == k >= 0 /\ k <= SliceLen(s)

\* s[..k]
SliceTo(s, k) ==
    IF k <= Len(s.bytes)
    THEN Slice(SubSeq(s.bytes, 1, k), s.fill, 0)
    ELSE Slice(s.bytes, s.fill, k - Len(s.bytes))

\* s[k..]
SliceFrom(s, k) ==
    IF k <= Len(s.bytes)
    THEN Slice(SubSeq(s.bytes, k + 1, Len(s.bytes)), s.fill, s.n)
    ELSE Slice(<<>>, s.fill, s.n - (k - Len(s.bytes)))

\* the bytes of s written out, for slices short enough to enumerate
Expand(s) == [i \in 1..SliceLen(s) |-> ByteAt(s, i - 1)]

\* [0_u8; size]
ZeroBuf(size) == Slice(<<>>, 0, size)

\* big-endian accessors of the packet views
GetU16(s, off) == ByteAt(s, off) * 256 + ByteAt(s, off + 1)

U16Bytes(v) == <<(v \div 256) % 256, v % 256>>

\* `x as u16`
AsU16(x) == x % 65536

----------------------------------------------------------------------------
(* Packet views: XxxPacket::new / new_view fail on a slice shorter than the *)
(* header, payload() is the slice after the header.                        *)

NewView(s, minimum) == IF SliceLen(s) >= minimum THEN s ELSE NoneSlice

IcmpPacket_new_view(s) == NewView(s, IcmpMinimumPacketSize)

Ipv6Packet_new_view(s) == NewView(s, Ipv6MinimumPacketSize)

UdpPacket_new_view(s) == NewView(s, UdpMinimumPacketSize)

IcmpPayload(view) == SliceFrom(view, IcmpMinimumPacketSize)

Ipv6Payload(view) == SliceFrom(view, Ipv6MinimumPacketSize)

get_icmp_type(view) ==
    LET t == ByteAt(view, 0) IN
    CASE t = TypeTimeExceeded -> "TimeExceeded"
      [] t = TypeDestinationUnreachable -> "DestinationUnreachable"
      [] t = TypeEchoRequest -> "EchoRequest"
      [] t = TypeEchoReply -> "EchoReply"
      [] OTHER -> "Other"

get_identifier(view) == GetU16(view, 4)

get_sequence(view) == GetU16(view, 6)

get_source(view) == GetU16(view, 0)

get_destination(view) == GetU16(view, 2)

----------------------------------------------------------------------------
(* Checksum engine: one's-complement sum over the IPv6 pseudo-header and   *)
(* the segment, whose checksum field is still zero when it is computed.    *)
(* Addresses are their eight 16 bit groups.                                *)

RECURSIVE SumSeq(_)
SumSeq(s) == IF s = <<>> THEN 0 ELSE Head(s) + SumSeq(Tail(s))

RECURSIVE SumWords(_)
SumWords(b) ==
    IF Len(b) = 0 THEN 0
    ELSE IF Len(b) = 1 THEN b[1] * 256
    ELSE b[1] * 256 + b[2] + SumWords(SubSeq(b, 3, Len(b)))

\* sum of the 16 bit words of a slice whose explicit part has even length
SliceWordSum(s) ==
    SumWords(s.bytes) + (s.n \div 2) * (s.fill * 257) + (s.n % 2) * (s.fill * 256)

RECURSIVE Fold16(_)
Fold16(x) == IF x < 65536 THEN x ELSE Fold16((x % 65536) + (x \div 65536))

PseudoHeaderSum(src_addr, dest_addr, length, next_header) ==
    SumSeq(src_addr) + SumSeq(dest_addr) + length + next_header

icmp_ipv6_checksum(packet, src_addr, dest_addr) ==
    65535 - Fold16(PseudoHeaderSum(src_addr, dest_addr, SliceLen(packet), NextHeaderIcmpv6)
                   + SliceWordSum(packet))

udp_ipv6_checksum(packet, src_addr, dest_addr) ==
    LET c == 65535 - Fold16(PseudoHeaderSum(src_addr, dest_addr, SliceLen(packet), NextHeaderUdp)
                            + SliceWordSum(packet))
    IN IF c = 0 THEN 65535 ELSE c

----------------------------------------------------------------------------
(* Values *)

\* PortDirection
FixedSrc(p) == [tag |-> "FixedSrc", src |-> p, dest |-> 0]

FixedDest(p) == [tag |-> "FixedDest", src |-> 0, dest |-> p]

FixedBoth(s, d) == [tag |-> "FixedBoth", src |-> s, dest |-> d]

NoDirection == [tag |-> "None", src |-> 0, dest |-> 0]

\* TraceResult<_>: Ok, Err(TracerError) or a panic that ends the thread
Outcome(k, e, d, r, i, s, a, o) ==
    [kind |-> k, err |-> e, detail |-> d, resp |-> r, id |-> i, seq |-> s, addr |-> a, io |-> o]

OkUnit == Outcome("Ok", "", 0, "Unit", -1, -1, <<>>, "")

OkNone == Outcome("Ok", "", 0, "None", -1, -1, <<>>, "")

OkSome(variant, ip, id, seq) == Outcome("Ok", "", 0, variant, id, seq, ip, "")

ErrInvalidPacketSize(size) == Outcome("Err", "InvalidPacketSize", size, "", -1, -1, <<>>, "")

ErrIoError(e) == Outcome("Err", "IoError", 0, "", -1, -1, <<>>, e)

\* Option::req() on None
ErrRequired == Outcome("Err", "PacketTooShort", 0, "", -1, -1, <<>>, "")

Panic(msg) == Outcome("Panic", msg, 0, "", -1, -1, <<>>, "")

NotCalled == Outcome("", "", 0, "", -1, -1, <<>>, "")

\* one call made on a socket, and whether it succeeded
SocketCall(name, a, p, h, b, succeeded) ==
    [call |-> name, addr |-> a, port |-> p, hops |-> h, buf |-> b, ok |-> succeeded]

\* a socket as the kernel holds it: its protocol, its blocking mode, the bound
\* local address and the hop limit
Socket(proto, nonblock) ==
    [created |-> TRUE, protocol |-> proto, nonblocking |-> nonblock, bound |-> FALSE,
     addr |-> <<>>, port |-> 0, hops |-> -1]

\* no socket: the factory was not called or returned Err
NoSocket ==
    [created |-> FALSE, protocol |-> "", nonblocking |-> FALSE, bound |-> FALSE,
     addr |-> <<>>, port |-> 0, hops |-> -1]

\* TraceResult<Socket>
MadeSocket(o, sock) == [outcome |-> o, socket |-> sock]

\* Socket::new(Domain::IPV6, Type::RAW, Some(protocol))? followed by
\* set_nonblocking(true)?; io names the call the kernel fails, if any
NewRawSocket(protocol, io) ==
    IF io = "Socket::new" THEN MadeSocket(ErrIoError("PermissionDenied"), NoSocket)
    ELSE IF io = "set_nonblocking" THEN MadeSocket(ErrIoError("Other"), NoSocket)
    ELSE MadeSocket(OkUnit, Socket(protocol, TRUE))

make_icmp_send_socket(io) == NewRawSocket("ICMPV6", io)

make_udp_send_socket(io) == NewRawSocket("UDP", io)

make_recv_socket(io) == NewRawSocket("ICMPV6", io)

----------------------------------------------------------------------------
(* Probe dispatcher *)

icmp_payload_size(packet_size) ==
    LET ip_header_size == Ipv6MinimumPacketSize
        icmp_header_size == IcmpMinimumPacketSize
    IN  packet_size - icmp_header_size - ip_header_size

udp_payload_size(packet_size) ==
    LET ip_header_size == Ipv6MinimumPacketSize
        udp_header_size == UdpMinimumPacketSize
    IN  packet_size - udp_header_size - ip_header_size

\* a build with overflow checks panics where a usize subtraction a - b has a < b
SubOverflows(a, b) == a < b

PayloadSizeOverflows(packet_size, header_size) ==
    \/ SubOverflows(packet_size, header_size)
    \/ SubOverflows(packet_size - header_size, Ipv6MinimumPacketSize)

Made(k, e, p) == [kind |-> k, err |-> e, packet |-> p]

make_udp_packet(udp_buf, src_addr, dest_addr, src_port, dest_port, payload_size, payload_pattern) ==
    LET udp_payload_buf == Slice(<<>>, payload_pattern, MAX_UDP_PAYLOAD_BUF)
        udp_packet_size == UdpMinimumPacketSize + payload_size
    IN  IF ~IndexInBounds(udp_buf, udp_packet_size)
        THEN Made("Panic", "range end index out of range", NoneSlice)
        ELSE IF IsNone(UdpPacket_new_view(SliceTo(udp_buf, udp_packet_size)))
        THEN Made("Err", "PacketTooShort", NoneSlice)
        ELSE IF ~IndexInBounds(udp_payload_buf, payload_size)
        THEN Made("Panic", "range end index out of range", NoneSlice)
        ELSE LET header == U16Bytes(src_port) \o U16Bytes(dest_port)
                           \o U16Bytes(AsU16(udp_packet_size))
                 unsummed == Slice(header \o <<0, 0>>, payload_pattern, payload_size)
                 checksum == udp_ipv6_checksum(unsummed, src_addr, dest_addr)
             IN  Made("Ok", "", Slice(header \o U16Bytes(checksum), payload_pattern, payload_size))

make_echo_request_icmp_packet(icmp_buf, src_addr, dest_addr, identifier, sequence, payload_size, payload_pattern) ==
    LET payload_buf == Slice(<<>>, payload_pattern, MAX_ICMP_PAYLOAD_BUF)
        packet_size == IcmpMinimumPacketSize + payload_size
    IN  IF ~IndexInBounds(icmp_buf, packet_size)
        THEN Made("Panic", "range end index out of range", NoneSlice)
        ELSE IF IsNone(IcmpPacket_new_view(SliceTo(icmp_buf, packet_size)))
        THEN Made("Err", "PacketTooShort", NoneSlice)
        ELSE IF ~IndexInBounds(payload_buf, payload_size)
        THEN Made("Panic", "range end index out of range", NoneSlice)
        ELSE LET tail == U16Bytes(identifier) \o U16Bytes(sequence)
                 unsummed == Slice(<<TypeEchoRequest, 0, 0, 0>> \o tail, payload_pattern, payload_size)
                 checksum == icmp_ipv6_checksum(unsummed, src_addr, dest_addr)
             IN  Made("Ok", "", Slice(<<TypeEchoRequest, 0>> \o U16Bytes(checksum) \o tail,
                                      payload_pattern, payload_size))

\* bind, set_unicast_hops_v6 and send_to in this order, each followed by `?`;
\* io names the call the kernel fails, if any
SendCalls(packet, src_addr, src_port, dest_addr, ttl, io) ==
    LET bind == SocketCall("bind", src_addr, src_port, -1, NoneSlice, io # "bind")
        hops == SocketCall("set_unicast_hops_v6", <<>>, 0, ttl, NoneSlice, io # "set_unicast_hops_v6")
        send == SocketCall("send_to", dest_addr, 0, -1, packet, io # "send_to")
    IN  IF io = "bind" THEN <<bind>>
        ELSE IF io = "set_unicast_hops_v6" THEN <<bind, hops>>
        ELSE <<bind, hops, send>>

SendOutcome(io) == IF io = "ok" THEN OkUnit ELSE ErrIoError("Other")

Dispatched(o, c) == [outcome |-> o, calls |-> c]

\* the size check that opens both dispatch functions, with >= for >
ExceedsMaxPacketSizeOffByOne(packet_size) == packet_size >= MAX_PACKET_SIZE

\* packet_size > MAX_PACKET_SIZE
ExceedsMaxPacketSize(packet_size) == packet_size > MAX_PACKET_SIZE

Ports(supported, s, d) == [ok |-> supported, src_port |-> s, dest_port |-> d]

\* the port selection with the arms of FixedDest exchanged
UdpPortsSwapped(port_direction, probe) ==
    IF port_direction.tag = "FixedSrc" THEN Ports(TRUE, port_direction.src, probe.sequence)
    ELSE IF port_direction.tag = "FixedDest" THEN Ports(TRUE, port_direction.dest, probe.sequence)
    ELSE Ports(FALSE, 0, 0)

\* the port selection with FixedBoth taken as a pair of ports to use
UdpPortsFallback(port_direction, probe) ==
    IF port_direction.tag = "FixedSrc" THEN Ports(TRUE, port_direction.src, probe.sequence)
    ELSE IF port_direction.tag = "FixedDest" THEN Ports(TRUE, probe.sequence, port_direction.dest)
    ELSE Ports(TRUE, port_direction.src, port_direction.dest)

\* let (src_port, dest_port) = match port_direction; ok is FALSE on the
\* unimplemented!() arm
UdpPorts(port_direction, probe) ==
    IF port_direction.tag = "FixedSrc" THEN Ports(TRUE, port_direction.src, probe.sequence)
    ELSE IF port_direction.tag = "FixedDest" THEN Ports(TRUE, probe.sequence, port_direction.dest)
    ELSE Ports(FALSE, 0, 0)

MadeOutcome(made) == IF made.kind = "Panic" THEN Panic(made.err) ELSE ErrRequired

dispatch_icmp_probe(probe, src_addr, dest_addr, identifier, packet_size, payload_pattern, overflow_checks, io) ==
    LET icmp_buf == ZeroBuf(MAX_ICMP_PACKET_BUF) IN
    IF ExceedsMaxPacketSize(packet_size)
    THEN Dispatched(ErrInvalidPacketSize(packet_size), <<>>)
    ELSE IF overflow_checks /\ PayloadSizeOverflows(packet_size, IcmpMinimumPacketSize)
    THEN Dispatched(Panic("attempt to subtract with overflow"), <<>>)
    ELSE LET echo_request == make_echo_request_icmp_packet(icmp_buf, src_addr, dest_addr,
                                 identifier, probe.sequence, icmp_payload_size(packet_size),
                                 payload_pattern)
         IN  IF echo_request.kind # "Ok"
             THEN Dispatched(MadeOutcome(echo_request), <<>>)
             ELSE Dispatched(SendOutcome(io),
                             SendCalls(echo_request.packet, src_addr, 0, dest_addr, probe.ttl, io))

dispatch_udp_probe(probe, src_addr, dest_addr, port_direction, packet_size, payload_pattern, overflow_checks, io) ==
    LET udp_buf == ZeroBuf(MAX_UDP_PACKET_BUF) IN
    IF ExceedsMaxPacketSize(packet_size)
    THEN Dispatched(ErrInvalidPacketSize(packet_size), <<>>)
    ELSE IF ~UdpPorts(port_direction, probe).ok
    THEN Dispatched(Panic("not implemented"), <<>>)
    ELSE LET src_port == UdpPorts(port_direction, probe).src_port
             dest_port == UdpPorts(port_direction, probe).dest_port
         IN  IF overflow_checks /\ PayloadSizeOverflows(packet_size, UdpMinimumPacketSize)
             THEN Dispatched(Panic("attempt to subtract with overflow"), <<>>)
             ELSE LET udp == make_udp_packet(udp_buf, src_addr, dest_addr, src_port, dest_port,
                                             udp_payload_size(packet_size), payload_pattern)
                  IN  IF udp.kind # "Ok"
                      THEN Dispatched(MadeOutcome(udp), <<>>)
                      ELSE Dispatched(SendOutcome(io),
                                      SendCalls(udp.packet, src_addr, src_port, dest_addr,
                                                probe.ttl, io))

\* the socket after the calls that succeeded
RECURSIVE ApplyCalls(_, _)
ApplyCalls(socket, calls) ==
    IF calls = <<>> THEN socket
    ELSE LET c == Head(calls)
             next == IF ~c.ok THEN socket
                     ELSE IF c.call = "bind"
                     THEN [socket EXCEPT !.bound = TRUE, !.addr = c.addr, !.port = c.port]
                     ELSE IF c.call = "set_unicast_hops_v6"
                     THEN [socket EXCEPT !.hops = c.hops]
                     ELSE socket
         IN  ApplyCalls(next, Tail(calls))

----------------------------------------------------------------------------
(* Response extractor *)

Extracted(k, e, i, s) == [kind |-> k, err |-> e, id |-> i, seq |-> s]

extract_echo_request_v6(ipv6_bytes) ==
    LET ipv6 == Ipv6Packet_new_view(ipv6_bytes) IN
    IF IsNone(ipv6) THEN Extracted("Err", "PacketTooShort", -1, -1)
    ELSE LET echo_request_packet == IcmpPacket_new_view(Ipv6Payload(ipv6)) IN
         IF IsNone(echo_request_packet) THEN Extracted("Err", "PacketTooShort", -1, -1)
         ELSE Extracted("Ok", "", get_identifier(echo_request_packet),
                        get_sequence(echo_request_packet))

\* the pair (src, dest), carried in the fields id and seq
extract_udp_packet_v6(ipv6_bytes) ==
    LET ipv6 == Ipv6Packet_new_view(ipv6_bytes) IN
    IF IsNone(ipv6) THEN Extracted("Err", "PacketTooShort", -1, -1)
    ELSE LET udp_packet == UdpPacket_new_view(Ipv6Payload(ipv6)) IN
         IF IsNone(udp_packet) THEN Extracted("Err", "PacketTooShort", -1, -1)
         ELSE Extracted("Ok", "", get_source(udp_packet), get_destination(udp_packet))

\* the TCP extractor reading the two ports at the head of the TCP header
extract_tcp_packet_v6_reading_ports(payload) ==
    LET ipv6 == Ipv6Packet_new_view(payload) IN
    IF IsNone(ipv6) THEN Extracted("Err", "PacketTooShort", -1, -1)
    ELSE Extracted("Ok", "", get_source(Ipv6Payload(ipv6)), get_destination(Ipv6Payload(ipv6)))

\* unimplemented!()
extract_tcp_packet_v6(payload) == Extracted("Panic", "not implemented", -1, -1)

\* the extraction with the UDP ports exchanged
extract_time_exceeded_v6_swapped(packet, protocol, direction) ==
    IF protocol = "Icmp" THEN extract_echo_request_v6(IcmpPayload(packet))
    ELSE IF protocol = "Udp"
    THEN LET ports == extract_udp_packet_v6(IcmpPayload(packet))
             src == ports.id
             dest == ports.seq
             sequence == IF direction.tag = "FixedDest" THEN dest ELSE src
         IN  IF ports.kind # "Ok" THEN ports ELSE Extracted("Ok", "", 0, sequence)
    ELSE extract_tcp_packet_v6(IcmpPayload(packet))

extract_time_exceeded_v6(packet, protocol, direction) ==
    IF protocol = "Icmp" THEN extract_echo_request_v6(IcmpPayload(packet))
    ELSE IF protocol = "Udp"
    THEN LET ports == extract_udp_packet_v6(IcmpPayload(packet))
             src == ports.id
             dest == ports.seq
             sequence == IF direction.tag = "FixedDest" THEN src ELSE dest
         IN  IF ports.kind # "Ok" THEN ports ELSE Extracted("Ok", "", 0, sequence)
    ELSE LET ports == extract_tcp_packet_v6(IcmpPayload(packet))
             src == ports.id
             dest == ports.seq
             sequence == IF direction.tag = "FixedSrc" THEN dest ELSE src
         IN  IF ports.kind # "Ok" THEN ports ELSE Extracted("Ok", "", 0, sequence)

extract_dest_unreachable_v6(packet, protocol, direction) ==
    IF protocol = "Icmp" THEN extract_echo_request_v6(IcmpPayload(packet))
    ELSE IF protocol = "Udp"
    THEN LET ports == extract_udp_packet_v6(IcmpPayload(packet))
             src == ports.id
             dest == ports.seq
             sequence == IF direction.tag = "FixedDest" THEN src ELSE dest
         IN  IF ports.kind # "Ok" THEN ports ELSE Extracted("Ok", "", 0, sequence)
    ELSE LET ports == extract_tcp_packet_v6(IcmpPayload(packet))
             src == ports.id
             dest == ports.seq
             sequence == IF direction.tag = "FixedSrc" THEN dest ELSE src
         IN  IF ports.kind # "Ok" THEN ports ELSE Extracted("Ok", "", 0, sequence)

\* the `?` on an extraction that did not return Ok
ExtractedOutcome(x) == IF x.kind = "Panic" THEN Panic(x.err) ELSE ErrRequired

\* the classification with an EchoReply taken under every protocol
extract_probe_resp_v6_any_reply(protocol, direction, icmp_v6, src) ==
    LET type == get_icmp_type(icmp_v6) IN
    IF type = "TimeExceeded"
    THEN LET x == extract_time_exceeded_v6(icmp_v6, protocol, direction) IN
         IF x.kind # "Ok" THEN ExtractedOutcome(x)
         ELSE OkSome("TimeExceeded", src, x.id, x.seq)
    ELSE IF type = "DestinationUnreachable"
    THEN LET x == extract_dest_unreachable_v6(icmp_v6, protocol, direction) IN
         IF x.kind # "Ok" THEN ExtractedOutcome(x)
         ELSE OkSome("DestinationUnreachable", src, x.id, x.seq)
    ELSE IF type = "EchoReply"
    THEN OkSome("EchoReply", src, get_identifier(icmp_v6), get_sequence(icmp_v6))
    ELSE OkNone

\* the receive timestamp of the response is left out
extract_probe_resp_v6(protocol, direction, icmp_v6, src) ==
    LET type == get_icmp_type(icmp_v6) IN
    IF type = "TimeExceeded"
    THEN LET packet == IcmpPacket_new_view(icmp_v6) IN
         IF IsNone(packet) THEN ErrRequired
         ELSE LET x == extract_time_exceeded_v6(packet, protocol, direction) IN
              IF x.kind # "Ok" THEN ExtractedOutcome(x)
              ELSE OkSome("TimeExceeded", src, x.id, x.seq)
    ELSE IF type = "DestinationUnreachable"
    THEN LET packet == IcmpPacket_new_view(icmp_v6) IN
         IF IsNone(packet) THEN ErrRequired
         ELSE LET x == extract_dest_unreachable_v6(packet, protocol, direction) IN
              IF x.kind # "Ok" THEN ExtractedOutcome(x)
              ELSE OkSome("DestinationUnreachable", src, x.id, x.seq)
    ELSE IF type = "EchoReply"
    THEN IF protocol = "Icmp"
         THEN LET packet == IcmpPacket_new_view(icmp_v6) IN
              IF IsNone(packet) THEN ErrRequired
              ELSE OkSome("EchoReply", src, get_identifier(packet), get_sequence(packet))
         ELSE OkNone
    ELSE OkNone

\* what the nonblocking recv_from leaves: the datagram at the head of the
\* socket's queue copied to the front of buf, or the error `answer`
Received(k, e, read, a, b) == [kind |-> k, err |-> e, bytes_read |-> read, addr |-> a, buf |-> b]

recv_from_into_buf(queue, buf, answer) ==
    IF answer # "packet" THEN Received("Err", answer, 0, <<>>, buf)
    ELSE LET d == Head(queue)
             bytes_read == IF Len(d.data) <= SliceLen(buf) THEN Len(d.data) ELSE SliceLen(buf)
         IN  Received("Ok", "", bytes_read, d.peer,
                      Slice(SubSeq(d.data, 1, bytes_read), buf.fill, SliceLen(buf) - bytes_read))

\* the receive path with every receive error surfaced, WouldBlock included
recv_icmp_probe_would_block_is_error(queue, protocol, direction, answer) ==
    LET buf == ZeroBuf(MAX_PACKET_SIZE)
        received == recv_from_into_buf(queue, buf, answer)
    IN  IF received.kind = "Ok"
        THEN IF received.addr = <<>> THEN ErrRequired
             ELSE extract_probe_resp_v6(protocol, direction, received.buf, received.addr)
        ELSE ErrIoError(received.err)

\* the receive path that keeps failing once a packet failed to parse
recv_icmp_probe_poisoned(queue, protocol, direction, answer) ==
    LET buf == ZeroBuf(MAX_PACKET_SIZE)
        received == recv_from_into_buf(queue, buf, answer)
    IN  IF received.kind = "Ok"
        THEN IF received.addr = <<>> \/ err_seen THEN ErrRequired
             ELSE extract_probe_resp_v6(protocol, direction, received.buf, received.addr)
        ELSE IF received.err = "WouldBlock" THEN OkNone
        ELSE ErrIoError(received.err)

recv_icmp_probe(queue, protocol, direction, answer) ==
    LET buf == ZeroBuf(MAX_PACKET_SIZE)
        received == recv_from_into_buf(queue, buf, answer)
    IN  IF received.kind = "Ok"
        THEN LET icmp_v6 == IcmpPacket_new_view(received.buf) IN
             IF IsNone(icmp_v6) THEN ErrRequired
             ELSE IF received.addr = <<>> THEN ErrRequired
             ELSE extract_probe_resp_v6(protocol, direction, icmp_v6, received.addr)
        ELSE IF received.err = "WouldBlock" THEN OkNone
        ELSE ErrIoError(received.err)

----------------------------------------------------------------------------
(* Inputs *)

\* the most datagrams waiting on the receive socket
MaxQueue == 2

\* the most answers to probes waiting on the receive socket
MaxInFlight == 1

\* fe80::1 and 2606:4700:4700::1111, and the address of a router on the path
SrcAddr == <<65152, 0, 0, 0, 0, 0, 0, 1>>

DestAddr == <<9734, 18176, 18176, 0, 0, 0, 0, 4369>>

HopAddr == <<9734, 18176, 0, 0, 0, 0, 0, 1>>

\* a peer address for which SockAddr::as_socket_ipv6 is None
NotIpv6 == <<>>

Sequences == {7, 5000}

Ttls == {3}

Probes == [sequence : Sequences, ttl : Ttls]

TraceIds == {4660}

FixedPort == 33434

PayloadPatterns == {90}

PacketSizes == {0, 40, 47, 48, 80, 1024, 1025, 2048}

Directions == {FixedSrc(FixedPort), FixedDest(FixedPort), FixedBoth(FixedPort, FixedPort + 1),
               NoDirection}

\* the directions that take different arms in the extractor
RecvDirections == {FixedSrc(FixedPort), FixedDest(FixedPort), NoDirection}

Protocols == {"Icmp", "Udp", "Tcp"}

\* io::ErrorKind of a failed receive other than WouldBlock
OtherIoErrors == {"Interrupted"}

\* the probe a datagram answers, where the model knows it
Origin(p, d, i, s) == [protocol |-> p, direction |-> d, identifier |-> i, sequence |-> s]

NoOrigin == Origin("", NoDirection, -1, -1)

Datagram(bytes, from, o) == [data |-> bytes, peer |-> from, origin |-> o]

NoDatagram == Datagram(<<>>, <<>>, NoOrigin)

RECURSIVE AddrBytes(_)
AddrBytes(a) == IF a = <<>> THEN <<>> ELSE U16Bytes(Head(a)) \o AddrBytes(Tail(a))

\* the IPv6 header the kernel put in front of a segment of the given length
Ipv6Header(next_header, length, hop_limit, src_addr, dest_addr) ==
    <<96, 0, 0, 0>> \o U16Bytes(length) \o <<next_header, hop_limit>>
    \o AddrBytes(src_addr) \o AddrBytes(dest_addr)

\* an ICMPv6 error: type, code, checksum, four unused bytes, then the
\* offending packet
IcmpErrorMsg(type, inner) == <<type, 0, 0, 0, 0, 0, 0, 0>> \o inner

EchoMsg(type, identifier, sequence) ==
    <<type, 0, 0, 0>> \o U16Bytes(identifier) \o U16Bytes(sequence)

InnerEcho(identifier, sequence) ==
    Ipv6Header(NextHeaderIcmpv6, 8, 1, SrcAddr, DestAddr)
    \o EchoMsg(TypeEchoRequest, identifier, sequence)

InnerUdp(src_port, dest_port) ==
    Ipv6Header(NextHeaderUdp, 8, 1, SrcAddr, DestAddr)
    \o U16Bytes(src_port) \o U16Bytes(dest_port) \o <<0, 8, 0, 0>>

\* the datagrams that arrive on the receive socket
Arrivals ==
    { Datagram(IcmpErrorMsg(TypeTimeExceeded, InnerEcho(4660, 7)), HopAddr, NoOrigin),
      Datagram(IcmpErrorMsg(TypeTimeExceeded, InnerUdp(FixedPort, 5000)), HopAddr, NoOrigin),
      Datagram(IcmpErrorMsg(TypeDestinationUnreachable, InnerUdp(5000, FixedPort)), DestAddr, NoOrigin),
      Datagram(EchoMsg(TypeEchoReply, 4660, 7), DestAddr, NoOrigin),
      Datagram(EchoMsg(TypeEchoRequest, 4660, 7), HopAddr, NoOrigin),
      Datagram(EchoMsg(135, 0, 0), HopAddr, NoOrigin),
      Datagram(SubSeq(IcmpErrorMsg(TypeTimeExceeded, InnerEcho(4660, 7)), 1, 8), HopAddr, NoOrigin),
      Datagram(SubSeq(EchoMsg(TypeEchoReply, 4660, 7), 1, 4), DestAddr, NoOrigin),
      Datagram(IcmpErrorMsg(TypeTimeExceeded, InnerUdp(5000, FixedPort)), NotIpv6, NoOrigin) }

----------------------------------------------------------------------------
(* State *)

\* the call made last: its arguments, what the kernel answered, what it
\* returned and the calls it made on the send socket
Last(o, p, d, pr, i, size, checks, k, dg, res, c, e) ==
    [op |-> o, protocol |-> p, direction |-> d, probe |-> pr, identifier |-> i,
     packet_size |-> size, overflow_checks |-> checks, answer |-> k, dgram |-> dg,
     outcome |-> res, calls |-> c, after_err |-> e]

NoProbe == [sequence |-> -1, ttl |-> -1]

\* what the kernel can answer to the two calls of a socket factory
FactoryAnswers == {"ok", "Socket::new", "set_nonblocking"}

\* no socket exists before the factories are called
Init ==
    /\ icmp_send_socket = NoSocket
    /\ udp_send_socket = NoSocket
    /\ recv_socket = NoSocket
    /\ recv_queue = <<>>
    /\ last = Last("", "", NoDirection, NoProbe, -1, -1, FALSE, "", NoDatagram, NotCalled, <<>>, FALSE)
    /\ err_seen = FALSE

\* a panic ends the tracer
Running == last.outcome.kind # "Panic"

\* the build only decides the result where a subtraction overflows, the
\* kernel only where a socket call is made
Builds(overflows) == IF overflows THEN BOOLEAN ELSE {FALSE}

KernelAnswers(calls) ==
    IF calls = <<>> THEN {"ok"} ELSE {"ok", "bind", "set_unicast_hops_v6", "send_to"}

----------------------------------------------------------------------------
(* Operations *)

MadeLast(name, made) ==
    Last(name, "", NoDirection, NoProbe, -1, -1, FALSE,
         IF made.outcome.kind = "Ok" THEN "ok" ELSE made.outcome.io,
         NoDatagram, made.outcome, <<>>, FALSE)

MakeIcmpSendSocket ==
    /\ Running
    /\ ~icmp_send_socket.created
    /\ \E io \in FactoryAnswers :
          /\ icmp_send_socket' = make_icmp_send_socket(io).socket
          /\ last' = MadeLast("make_icmp_send_socket", make_icmp_send_socket(io))
    /\ UNCHANGED <<udp_send_socket, recv_socket, recv_queue, err_seen>>

MakeUdpSendSocket ==
    /\ Running
    /\ ~udp_send_socket.created
    /\ \E io \in FactoryAnswers :
          /\ udp_send_socket' = make_udp_send_socket(io).socket
          /\ last' = MadeLast("make_udp_send_socket", make_udp_send_socket(io))
    /\ UNCHANGED <<icmp_send_socket, recv_socket, recv_queue, err_seen>>

MakeRecvSocket ==
    /\ Running
    /\ ~recv_socket.created
    /\ \E io \in FactoryAnswers :
          /\ recv_socket' = make_recv_socket(io).socket
          /\ last' = MadeLast("make_recv_socket", make_recv_socket(io))
    /\ UNCHANGED <<icmp_send_socket, udp_send_socket, recv_queue, err_seen>>

DispatchIcmp(probe, identifier, packet_size, payload_pattern) ==
    /\ Running
    /\ icmp_send_socket.created
    /\ \E overflow_checks \in Builds(PayloadSizeOverflows(packet_size, IcmpMinimumPacketSize)) :
       \E io \in KernelAnswers(dispatch_icmp_probe(probe, SrcAddr, DestAddr, identifier,
                                   packet_size, payload_pattern, overflow_checks, "ok").calls) :
          LET d == dispatch_icmp_probe(probe, SrcAddr, DestAddr, identifier, packet_size,
                                       payload_pattern, overflow_checks, io)
          IN  /\ icmp_send_socket' = ApplyCalls(icmp_send_socket, d.calls)
              /\ last' = Last("dispatch_icmp_probe", "Icmp", NoDirection, probe, identifier,
                              packet_size, overflow_checks, io, NoDatagram, d.outcome, d.calls,
                              FALSE)
    /\ UNCHANGED <<udp_send_socket, recv_socket, recv_queue, err_seen>>

DispatchUdp(probe, port_direction, packet_size, payload_pattern) ==
    /\ Running
    /\ udp_send_socket.created
    /\ \E overflow_checks \in Builds(PayloadSizeOverflows(packet_size, UdpMinimumPacketSize)) :
       \E io \in KernelAnswers(dispatch_udp_probe(probe, SrcAddr, DestAddr, port_direction,
                                   packet_size, payload_pattern, overflow_checks, "ok").calls) :
          LET d == dispatch_udp_probe(probe, SrcAddr, DestAddr, port_direction, packet_size,
                                      payload_pattern, overflow_checks, io)
          IN  /\ udp_send_socket' = ApplyCalls(udp_send_socket, d.calls)
              /\ last' = Last("dispatch_udp_probe", "Udp", port_direction, probe, -1,
                              packet_size, overflow_checks, io, NoDatagram, d.outcome, d.calls,
                              FALSE)
    /\ UNCHANGED <<icmp_send_socket, recv_socket, recv_queue, err_seen>>

\* what the nonblocking receive can answer
RecvAnswers(socket, queue) ==
    (IF queue # <<>> THEN {"packet"}
     ELSE IF socket.nonblocking THEN {"WouldBlock"} ELSE {})
    \cup OtherIoErrors

Recv(protocol, direction) ==
    /\ Running
    /\ recv_socket.created
    /\ \E answer \in RecvAnswers(recv_socket, recv_queue) :
          LET outcome == recv_icmp_probe(recv_queue, protocol, direction, answer)
              dgram == IF answer = "packet" THEN Head(recv_queue) ELSE NoDatagram
          IN  /\ last' = Last("recv_icmp_probe", protocol, direction, NoProbe, -1, -1, FALSE,
                              answer, dgram, outcome, <<>>, err_seen)
              /\ recv_queue' = IF answer = "packet" THEN Tail(recv_queue) ELSE recv_queue
              /\ err_seen' = (err_seen \/ (answer = "packet" /\ outcome.kind = "Err"))
    /\ UNCHANGED <<icmp_send_socket, udp_send_socket, recv_socket>>

\* a datagram reaches the receive socket
Arrive(d) ==
    /\ Running
    /\ recv_socket.created
    /\ Len(recv_queue) < MaxQueue
    /\ recv_queue' = Append(recv_queue, d)
    /\ UNCHANGED <<icmp_send_socket, udp_send_socket, recv_socket, last, err_seen>>

\* a router or the target answers the probe sent last with an ICMPv6 error
\* that carries the probe's IPv6 header and transport header
RouterReply(type) ==
    /\ Running
    /\ recv_socket.created
    /\ Len(recv_queue) < MaxInFlight
    /\ Len(last.calls) = 3 /\ last.calls[3].ok
    /\ LET sent == last.calls[3].buf
           next_header == IF last.protocol = "Udp" THEN NextHeaderUdp ELSE NextHeaderIcmpv6
           inner == Ipv6Header(next_header, SliceLen(sent) % 65536, 1, SrcAddr, DestAddr)
                    \o Expand(SliceTo(sent, 8))
       IN  recv_queue' = Append(recv_queue,
               Datagram(IcmpErrorMsg(type, inner),
                        IF type = TypeTimeExceeded THEN HopAddr ELSE DestAddr,
                        Origin(last.protocol, last.direction, last.identifier,
                               last.probe.sequence)))
    /\ UNCHANGED <<icmp_send_socket, udp_send_socket, recv_socket, last, err_seen>>

----------------------------------------------------------------------------
(* Specifications *)

SendIcmp ==
    \E probe \in Probes, identifier \in TraceIds, packet_size \in PacketSizes,
       payload_pattern \in PayloadPatterns :
        DispatchIcmp(probe, identifier, packet_size, payload_pattern)

SendUdp ==
    \E probe \in Probes, port_direction \in Directions, packet_size \in PacketSizes,
       payload_pattern \in PayloadPatterns :
        DispatchUdp(probe, port_direction, packet_size, payload_pattern)

ArriveAny == \E d \in Arrivals : Arrive(d)

RecvAny == \E protocol \in Protocols, direction \in RecvDirections : Recv(protocol, direction)

\* the dispatcher under every packet size and port direction
SendNext == MakeIcmpSendSocket \/ MakeUdpSendSocket \/ SendIcmp \/ SendUdp

SendSpec == Init /\ [][SendNext]_vars

\* the extractor under every datagram the network can deliver
RecvNext == MakeRecvSocket \/ ArriveAny \/ RecvAny

RecvSpec == Init /\ [][RecvNext]_vars

\* probes of an ordinary size, answered by the routers on the path
TripSizes == {80}

TripDirections == {FixedSrc(FixedPort), FixedDest(FixedPort)}

TripIcmp ==
    \E probe \in Probes, identifier \in TraceIds, packet_size \in TripSizes,
       payload_pattern \in PayloadPatterns :
        DispatchIcmp(probe, identifier, packet_size, payload_pattern)

TripUdp ==
    \E probe \in Probes, port_direction \in TripDirections, packet_size \in TripSizes,
       payload_pattern \in PayloadPatterns :
        DispatchUdp(probe, port_direction, packet_size, payload_pattern)

RouterReplyAny == \E type \in {TypeTimeExceeded, TypeDestinationUnreachable} : RouterReply(type)

TripRecv == \E protocol \in {"Icmp", "Udp"}, direction \in TripDirections : Recv(protocol, direction)

TripNext ==
    \/ MakeIcmpSendSocket \/ MakeUdpSendSocket \/ MakeRecvSocket
    \/ TripIcmp \/ TripUdp \/ RouterReplyAny \/ TripRecv

TripSpec == Init /\ [][TripNext]_vars

Next == SendNext \/ RecvNext \/ RouterReplyAny

Spec == Init /\ [][Next]_vars

----------------------------------------------------------------------------
(* Properties of the dispatcher, checked under SendSpec *)

IsDispatch == last.op \in {"dispatch_icmp_probe", "dispatch_udp_probe"}

\* the direction is one the IPv6 UDP dispatcher implements
Supported(direction) == direction.tag \in {"FixedSrc", "FixedDest"}

\* the bytes the last call handed to send_to
SentBuf == last.calls[3].buf

Sent == Len(last.calls) = 3 /\ last.calls[3].call = "send_to" /\ last.calls[3].ok

\* the 16 bit field at byte offset off of the bytes sent, read off the wire
WireU16(off) == SentBuf.bytes[off + 1] * 256 + SentBuf.bytes[off + 2]

ExpectedSrcPort ==
    IF last.direction.tag = "FixedSrc" THEN last.direction.src ELSE last.probe.sequence

ExpectedDestPort ==
    IF last.direction.tag = "FixedSrc" THEN last.probe.sequence ELSE last.direction.dest

\* C2: a UDP dispatch under FixedSrc(p) binds the socket to port p and sends
\* a segment with source port p and destination port probe.sequence; under
\* FixedDest(p) it binds to port probe.sequence and sends source port
\* probe.sequence and destination port p; the socket address given to
\* send_to has port 0.
C2_UdpPortSelection ==
    (last.op = "dispatch_udp_probe" /\ Supported(last.direction) /\ last.calls # <<>>) =>
        /\ last.calls[1].call = "bind"
        /\ last.calls[1].port = ExpectedSrcPort
        /\ last.calls[1].ok => (udp_send_socket.bound /\ udp_send_socket.port = ExpectedSrcPort)
        /\ Len(last.calls) = 3 =>
              /\ last.calls[3].call = "send_to"
              /\ last.calls[3].port = 0
              /\ WireU16(0) = ExpectedSrcPort
              /\ WireU16(2) = ExpectedDestPort

C2_Witness ==
    /\ last.op = "dispatch_udp_probe"
    /\ last.direction = FixedDest(FixedPort)
    /\ last.probe.sequence = 5000
    /\ Sent
    /\ udp_send_socket.port = 5000
    /\ WireU16(2) = FixedPort

\* C3 as claimed: every dispatch with 0 <= packet_size <= MAX_PACKET_SIZE
\* whose socket calls succeed sends exactly packet_size minus the IPv6 header
\* bytes, with a payload of 0 to MAX_PACKET_SIZE minus both headers bytes,
\* and neither the payload size computation nor the slicing panics.
C3_SendsPacketSizeMinusHeader ==
    (/\ IsDispatch
     /\ last.packet_size <= MAX_PACKET_SIZE
     /\ last.op = "dispatch_udp_probe" => Supported(last.direction)
     /\ last.answer = "ok") =>
        /\ last.outcome = OkUnit
        /\ Sent
        /\ SliceLen(SentBuf) = last.packet_size - Ipv6MinimumPacketSize
        /\ SentBuf.n >= 0
        /\ SentBuf.n <= MAX_PACKET_SIZE - Ipv6MinimumPacketSize - UdpMinimumPacketSize

\* C4: a dispatch with packet_size = MAX_PACKET_SIZE whose socket calls
\* succeed returns Ok after bind, hop limit and send; a dispatch with a larger
\* packet_size returns InvalidPacketSize(packet_size) and makes no call on the
\* socket, under every port direction.  (The directions the UDP dispatcher
\* does not implement are the subject of C9.)
C4_SizeBoundary ==
    IsDispatch =>
        /\ (/\ last.packet_size = MAX_PACKET_SIZE
            /\ last.op = "dispatch_udp_probe" => Supported(last.direction)
            /\ last.answer = "ok") =>
               (last.outcome = OkUnit /\ Sent
                /\ SliceLen(SentBuf) = MAX_PACKET_SIZE - Ipv6MinimumPacketSize)
        /\ last.packet_size > MAX_PACKET_SIZE =>
               (last.outcome = ErrInvalidPacketSize(last.packet_size) /\ last.calls = <<>>)

C4_Witness ==
    /\ last.op = "dispatch_udp_probe"
    /\ last.packet_size = 2048
    /\ last.direction.tag = "FixedBoth"
    /\ last.outcome.err = "InvalidPacketSize"
    /\ last.outcome.detail = 2048
    /\ udp_send_socket = Socket("UDP", TRUE)

\* C9: a UDP dispatch under FixedBoth or None with packet_size <=
\* MAX_PACKET_SIZE ends in the unimplemented failure and makes no call on the
\* socket.
C9_UnsupportedDirection ==
    (/\ last.op = "dispatch_udp_probe"
     /\ ~Supported(last.direction)
     /\ last.packet_size <= MAX_PACKET_SIZE) =>
        /\ last.outcome = Panic("not implemented")
        /\ last.calls = <<>>

C9_Witness ==
    /\ last.op = "dispatch_udp_probe"
    /\ last.direction = NoDirection
    /\ last.packet_size = 80
    /\ last.outcome.kind = "Panic"
    /\ udp_send_socket = Socket("UDP", TRUE)

----------------------------------------------------------------------------
(* Properties of the extractor, checked under RecvSpec *)

\* the last call was a receive that took a datagram off the socket
GotPacket == last.op = "recv_icmp_probe" /\ last.answer = "packet"

\* an ICMPv6 message: a datagram with a type byte, sent from an IPv6 address
IsIcmpv6Message(d) == Len(d.data) >= 1 /\ d.peer # NotIpv6

\* fields of a datagram, read at their offsets in the bytes that arrived
DataType(d) == d.data[1]

DataU16(d, off) == d.data[off + 1] * 256 + d.data[off + 2]

VariantOfType(t) ==
    IF t = TypeTimeExceeded THEN "TimeExceeded"
    ELSE IF t = TypeDestinationUnreachable THEN "DestinationUnreachable"
    ELSE IF t = TypeEchoReply THEN "EchoReply"
    ELSE "None"

IsError(d) == DataType(d) \in {TypeTimeExceeded, TypeDestinationUnreachable}

\* offsets in an ICMPv6 error: the inner transport header follows the ICMPv6
\* header and the inner IPv6 header
InnerTransport == IcmpMinimumPacketSize + Ipv6MinimumPacketSize

FullErrorLen == InnerTransport + 8

IsResponse(outcome) == outcome.resp \in {"TimeExceeded", "DestinationUnreachable", "EchoReply"}

\* C5: an EchoReply under Udp or Tcp and every message that is neither
\* TimeExceeded, DestinationUnreachable nor EchoReply give Ok(None); an
\* EchoReply response is returned only for an EchoReply under Icmp and carries
\* the reply's identifier and sequence; the variant of a response is the
\* ICMPv6 type of the message.
C5_Classification ==
    (GotPacket /\ IsIcmpv6Message(last.dgram)) =>
        LET d == last.dgram
            t == DataType(d)
        IN  /\ (t = TypeEchoReply /\ last.protocol \in {"Udp", "Tcp"}) => last.outcome = OkNone
            /\ t \notin {TypeTimeExceeded, TypeDestinationUnreachable, TypeEchoReply} =>
                   last.outcome = OkNone
            /\ last.outcome.resp = "EchoReply" => (t = TypeEchoReply /\ last.protocol = "Icmp")
            /\ (t = TypeEchoReply /\ last.protocol = "Icmp" /\ Len(d.data) >= IcmpMinimumPacketSize) =>
                   last.outcome = OkSome("EchoReply", d.peer, DataU16(d, 4), DataU16(d, 6))
            /\ IsResponse(last.outcome) => last.outcome.resp = VariantOfType(t)

C5_Witness ==
    /\ GotPacket
    /\ last.protocol = "Icmp"
    /\ Len(last.dgram.data) = 8
    /\ DataType(last.dgram) = TypeEchoReply
    /\ last.outcome = OkSome("EchoReply", DestAddr, 4660, 7)

\* C6 as claimed: a datagram shorter than the header being parsed (the ICMPv6
\* header; for an error also the inner IPv6 and transport headers) gives the
\* PacketTooShort error, and no response is built from bytes past the ones
\* received.
C6_ShortPacketIsError ==
    (GotPacket /\ IsIcmpv6Message(last.dgram)) =>
        LET d == last.dgram IN
        /\ Len(d.data) < IcmpMinimumPacketSize => last.outcome = ErrRequired
        /\ (IsError(d) /\ Len(d.data) < FullErrorLen) => last.outcome = ErrRequired
        /\ last.outcome.resp \in {"TimeExceeded", "DestinationUnreachable"} =>
               Len(d.data) >= FullErrorLen
        /\ last.outcome.resp = "EchoReply" => Len(d.data) >= IcmpMinimumPacketSize

\* a datagram recv_icmp_probe has a response for: a complete TimeExceeded or
\* DestinationUnreachable under Icmp or Udp, a complete EchoReply under Icmp
WellFormed(d, protocol) ==
    /\ IsIcmpv6Message(d)
    /\ \/ IsError(d) /\ Len(d.data) >= FullErrorLen /\ protocol \in {"Icmp", "Udp"}
       \/ DataType(d) = TypeEchoReply /\ Len(d.data) >= IcmpMinimumPacketSize /\ protocol = "Icmp"

\* the response to a well-formed datagram, read off the datagram
ResponseTo(d, protocol, direction) ==
    IF DataType(d) = TypeEchoReply
    THEN OkSome("EchoReply", d.peer, DataU16(d, 4), DataU16(d, 6))
    ELSE IF protocol = "Icmp"
    THEN OkSome(VariantOfType(DataType(d)), d.peer,
                DataU16(d, InnerTransport + 4), DataU16(d, InnerTransport + 6))
    ELSE OkSome(VariantOfType(DataType(d)), d.peer, 0,
                IF direction.tag = "FixedDest" THEN DataU16(d, InnerTransport)
                ELSE DataU16(d, InnerTransport + 2))

\* a step that is a call of recv_icmp_probe
RecvStep == last'.op = "recv_icmp_probe" /\ (last' # last \/ Len(recv_queue') < Len(recv_queue))

\* C7: once a call has returned Err for a packet, a later call still takes
\* exactly the datagram at the head of the queue and returns the response to
\* it when it is well-formed, and returns Ok(None) when the queue is empty and
\* the socket reports WouldBlock.
C7_NoPoisoning ==
    [][(err_seen /\ RecvStep) =>
          /\ last'.after_err
          /\ last'.answer = "packet" =>
                /\ recv_queue # <<>>
                /\ last'.dgram = Head(recv_queue)
                /\ recv_queue' = Tail(recv_queue)
                /\ WellFormed(Head(recv_queue), last'.protocol) =>
                      last'.outcome = ResponseTo(Head(recv_queue), last'.protocol,
                                                 last'.direction)
          /\ last'.answer # "packet" => recv_queue' = recv_queue
          /\ recv_queue = <<>> => last'.answer # "packet"
          /\ last'.answer = "WouldBlock" => (recv_queue = <<>> /\ last'.outcome = OkNone)]_vars

C7_Witness ==
    /\ GotPacket
    /\ last.after_err
    /\ WellFormed(last.dgram, last.protocol)
    /\ last.outcome.resp = "TimeExceeded"
    /\ last.outcome.seq = 5000

\* C8 as claimed: under Tcp a complete TimeExceeded or DestinationUnreachable
\* gives a response with identifier 0 and, as sequence, the inner source port
\* when direction is FixedSrc and the inner destination port otherwise.
C8_TcpSequence ==
    (/\ GotPacket
     /\ IsIcmpv6Message(last.dgram)
     /\ IsError(last.dgram)
     /\ Len(last.dgram.data) >= FullErrorLen
     /\ last.protocol = "Tcp") =>
        last.outcome = OkSome(VariantOfType(DataType(last.dgram)), last.dgram.peer, 0,
                              IF last.direction.tag = "FixedSrc"
                              THEN DataU16(last.dgram, InnerTransport)
                              ELSE DataU16(last.dgram, InnerTransport + 2))

\* C8 amended: under Tcp a TimeExceeded or DestinationUnreachable gives no
\* response under any direction: the TCP extractor is not implemented and the
\* call ends in the unimplemented failure.
C8_TcpUnimplemented ==
    (/\ GotPacket
     /\ IsIcmpv6Message(last.dgram)
     /\ IsError(last.dgram)
     /\ last.protocol = "Tcp") =>
        last.outcome = Panic("not implemented")

C8_Witness ==
    /\ GotPacket
    /\ last.protocol = "Tcp"
    /\ last.direction.tag = "FixedSrc"
    /\ IsIcmpv6Message(last.dgram)
    /\ DataType(last.dgram) = TypeTimeExceeded
    /\ Len(last.dgram.data) = FullErrorLen
    /\ last.outcome.kind = "Panic"

\* C10: the receive never waits: an empty queue is answered WouldBlock, which
\* gives Ok(None); every other receive error gives IoError with that error; a
\* response is returned only when a datagram was received.
C10_SocketOutcomes ==
    /\ (recv_socket.created /\ recv_queue = <<>>) =>
          "WouldBlock" \in RecvAnswers(recv_socket, recv_queue)
    /\ last.op = "recv_icmp_probe" =>
          /\ last.answer = "WouldBlock" => last.outcome = OkNone
          /\ last.answer \in OtherIoErrors => last.outcome = ErrIoError(last.answer)
          /\ IsResponse(last.outcome) => (last.answer = "packet" /\ last.dgram # NoDatagram)
          /\ last.answer \in {"packet", "WouldBlock"} \cup OtherIoErrors

C10_Witness ==
    /\ last.op = "recv_icmp_probe"
    /\ last.answer = "WouldBlock"
    /\ recv_queue = <<>>
    /\ last.outcome = OkNone

----------------------------------------------------------------------------
(* The round trip, checked under TripSpec *)

\* C1: when the ICMPv6 error that carries the IPv6 and transport headers of
\* a dispatched probe is received under the probe's protocol and port
\* direction, the response has the variant of the error and carries
\* (identifier, sequence) of the probe under Icmp and (0, sequence) under Udp.
C1_RoundTrip ==
    (/\ GotPacket
     /\ last.dgram.origin # NoOrigin
     /\ last.protocol = last.dgram.origin.protocol
     /\ last.protocol = "Udp" => last.direction = last.dgram.origin.direction) =>
        last.outcome = OkSome(VariantOfType(DataType(last.dgram)), last.dgram.peer,
                              IF last.protocol = "Icmp" THEN last.dgram.origin.identifier ELSE 0,
                              last.dgram.origin.sequence)

C1_Witness ==
    /\ GotPacket
    /\ last.dgram.origin.protocol = "Udp"
    /\ last.protocol = "Udp"
    /\ last.dgram.origin.direction = FixedDest(FixedPort)
    /\ last.direction = FixedDest(FixedPort)
    /\ last.dgram.origin.sequence = 5000
    /\ last.outcome = OkSome("TimeExceeded", HopAddr, 0, 5000)

====
